---- MODULE Spec2Model ----
(***************************************************************************)
(* Model of the uzbl keycmd plugin (examples/data/uzbl/plugins/keycmd.py). *)
(* Python strings are sequences of one-character strings, so that len,     *)
(* slicing, rstrip, rsplit, sort and escape are computed as Python does.   *)
(***************************************************************************)
EXTENDS Integers, Sequences, FiniteSets, TLC

VARIABLES UZBLS, config, events, err, last, flow, execs, down

vars == <<UZBLS, config, events, err, last, flow, execs, down>>

(***************************************************************************)
(* Bounds of the model.                                                    *)
(***************************************************************************)
\* longest command the model lets a handler produce
MaxCmd == 2
\* most key names held at once
MaxHeld == 2
\* lowest cursor value the model follows is -MaxNeg
MaxNeg == 1

(***************************************************************************)
(* Python string primitives.                                               *)
(***************************************************************************)
Upper == <<"A","B","C","D","E","F","G","H","I","J","K","L","M",
           "N","O","P","Q","R","S","T","U","V","W","X","Y","Z">>
Lower == <<"a","b","c","d","e","f","g","h","i","j","k","l","m",
           "n","o","p","q","r","s","t","u","v","w","x","y","z">>
Digits == <<"0","1","2","3","4","5","6","7","8","9">>

IndexOf(seq, c) == CHOOSE i \in 1..Len(seq) : seq[i] = c

InSeq(seq, c) == \E i \in 1..Len(seq) : seq[i] = c

\* code point of a character (the order Python compares strings by)
Ord(c) ==
  IF InSeq(Upper, c) THEN 64 + IndexOf(Upper, c)
  ELSE IF InSeq(Lower, c) THEN 96 + IndexOf(Lower, c)
  ELSE IF InSeq(Digits, c) THEN 47 + IndexOf(Digits, c)
  ELSE CASE c = " " -> 32
         [] c = "+" -> 43
         [] c = "-" -> 45
         [] c = "/" -> 47
         [] c = "<" -> 60
         [] c = "=" -> 61
         [] c = ">" -> 62
         [] c = "@" -> 64
         [] c = "[" -> 91
         [] c = "\\" -> 92
         [] c = "]" -> 93
         [] c = "_" -> 95

\* a < b for Python strings
RECURSIVE StrLess(_, _)
StrLess(a, b) ==
  IF b = <<>> THEN FALSE
  ELSE IF a = <<>> THEN TRUE
  ELSE IF Ord(Head(a)) # Ord(Head(b)) THEN Ord(Head(a)) < Ord(Head(b))
  ELSE StrLess(Tail(a), Tail(b))

\* the slice bound Python computes from an index i on a sequence of length n
SliceIndex(i, n) ==
  IF i < 0 THEN (IF i + n < 0 THEN 0 ELSE i + n)
  ELSE IF i > n THEN n ELSE i

\* s[:j]
SliceTo(s, j) == SubSeq(s, 1, SliceIndex(j, Len(s)))

\* s[i:]
SliceFrom(s, i) == SubSeq(s, SliceIndex(i, Len(s)) + 1, Len(s))

\* s.endswith(suffix)
EndsWith(s, suffix) ==
  /\ Len(suffix) <= Len(s)
  /\ SubSeq(s, Len(s) - Len(suffix) + 1, Len(s)) = suffix

\* s.startswith(prefix)
StartsWith(s, prefix) ==
  /\ Len(prefix) <= Len(s)
  /\ SubSeq(s, 1, Len(prefix)) = prefix

\* sub occurs in s at (1-based) position i
OccursAt(s, sub, i) ==
  /\ i >= 1
  /\ i + Len(sub) - 1 <= Len(s)
  /\ SubSeq(s, i, i + Len(sub) - 1) = sub

\* sub in s
Contains(s, sub) == \E i \in 1..(Len(s) + 1) : OccursAt(s, sub, i)

\* mutant of RStrip: nothing is stripped
RStrip_none(s, chars) == s

\* s.rstrip(chars): drop trailing characters that occur in chars
RECURSIVE RStrip(_, _)
RStrip(s, chars) ==
  IF s # <<>> /\ InSeq(chars, s[Len(s)])
  THEN RStrip(SubSeq(s, 1, Len(s) - 1), chars)
  ELSE s

\* s.rsplit(sep, 1): split once at the last occurrence of sep
RSplit1(s, sep) ==
  IF Contains(s, sep)
  THEN LET i == CHOOSE j \in 1..(Len(s) + 1) :
                  /\ OccursAt(s, sep, j)
                  /\ \A m \in 1..(Len(s) + 1) : OccursAt(s, sep, m) => m <= j
       IN  <<SubSeq(s, 1, i - 1), SubSeq(s, i + Len(sep), Len(s))>>
  ELSE <<s>>

\* s.strip(): drop leading and trailing blanks
RECURSIVE LStrip(_)
LStrip(s) == IF s # <<>> /\ Head(s) = " " THEN LStrip(Tail(s)) ELSE s

Strip(s) == LStrip(RStrip(s, <<" ">>))

\* s.replace(c, rep) for a single character c
RECURSIVE Replace(_, _, _)
Replace(s, c, rep) ==
  IF s = <<>> THEN <<>>
  ELSE (IF Head(s) = c THEN rep ELSE <<Head(s)>>) \o Replace(Tail(s), c, rep)

\* value of a string of decimal digits
RECURSIVE DigitsValue(_)
DigitsValue(s) ==
  IF s = <<>> THEN 0
  ELSE 10 * DigitsValue(SubSeq(s, 1, Len(s) - 1)) + (IndexOf(Digits, s[Len(s)]) - 1)

AllDigits(s) == s # <<>> /\ \A i \in 1..Len(s) : InSeq(Digits, s[i])

\* int(s): ok is FALSE where Python raises ValueError
ParseInt(s) ==
  LET t == Strip(s)
      signed == t # <<>> /\ Head(t) \in {"-", "+"}
      body == IF signed THEN Tail(t) ELSE t
  IN  IF AllDigits(body)
      THEN [ok |-> TRUE,
            val |-> IF signed /\ Head(t) = "-" THEN 0 - DigitsValue(body)
                    ELSE DigitsValue(body)]
      ELSE [ok |-> FALSE, val |-> 0]

\* list.sort() of a list of strings (insertion into the sorted rest)
RECURSIVE Insert(_, _)
Insert(sorted, x) ==
  IF sorted = <<>> THEN <<x>>
  ELSE IF StrLess(x, Head(sorted)) THEN <<x>> \o sorted
  ELSE <<Head(sorted)>> \o Insert(Tail(sorted), x)

\* mutant of Sort: the list is left as appended
Sort_none(list) == list

RECURSIVE Sort(_)
Sort(list) ==
  IF list = <<>> THEN <<>>
  ELSE Insert(Sort(SubSeq(list, 1, Len(list) - 1)), list[Len(list)])

\* list.remove(x): drop the first occurrence of x
RECURSIVE Remove(_, _)
Remove(list, x) ==
  IF list = <<>> THEN <<>>
  ELSE IF Head(list) = x THEN Tail(list)
  ELSE <<Head(list)>> \o Remove(Tail(list), x)

(***************************************************************************)
(* Key names, texts and the other strings of the program.                  *)
(***************************************************************************)
\* raw key names as the browser reports them
Control == <<"C","o","n","t","r","o","l">>
Control_L == <<"C","o","n","t","r","o","l","_","L">>
ISO_Left_Tab == <<"I","S","O","_","L","e","f","t","_","T","a","b">>
space == <<"s","p","a","c","e">>
Shift_L == <<"S","h","i","f","t","_","L">>
Alt_L == <<"A","l","t","_","L">>
Meta_L == <<"M","e","t","a","_","L">>
Tab == <<"T","a","b">>
KeyA == <<"a">>

\* names after make_simple
Ctrl == <<"C","t","r","l">>
ShiftTab == <<"S","h","i","f","t","-","T","a","b">>
Space == <<"S","p","a","c","e">>
Shift == <<"S","h","i","f","t">>
Alt == <<"A","l","t">>
Meta == <<"M","e","t","a">>

SIMPLEKEYS == (Control :> Ctrl) @@ (ISO_Left_Tab :> ShiftTab) @@ (space :> Space)

\* "%s<span @cursor_style>%s</span>%s"
KEYCMD_FORMAT(a, b, c) ==
  a \o <<"<","s","p","a","n"," ","@","c","u","r","s","o","r","_","s","t","y","l","e",">">>
    \o b \o <<"<","/","s","p","a","n",">">> \o c

\* the value '1' of a configuration flag, and the other value the model uses
One == <<"1">>
Zero == <<"0">>

\* Python's None (no string of the program is this sequence)
None == <<"None">>

escape(str) ==
  IF str = <<>> THEN <<>>
  ELSE LET s1 == IF InSeq(str, "\\") THEN Replace(str, "\\", <<"\\", "\\">>) ELSE str
           s2 == IF InSeq(s1, "@") THEN Replace(s1, "@", <<"\\", "@">>) ELSE s1
       IN  <<"@", "[">> \o s2 \o <<"]", "@">>

(***************************************************************************)
(* Keylet.                                                                 *)
(***************************************************************************)
Keylet == [cmd |-> <<>>, cursor |-> 0, held |-> <<>>, tostr |-> None, modcmd |-> FALSE]

mod_held(k) == \E i \in 1..Len(k.held) : Len(k.held[i]) # 1

key_cmd(k) == k.cmd

RECURSIVE JoinHeld(_)
JoinHeld(held) ==
  IF held = <<>> THEN <<>>
  ELSE <<"<">> \o Head(held) \o <<">">> \o JoinHeld(Tail(held))

mod_cmd(k) == JoinHeld(k.held)

\* the string to_string returns
to_string(k) == IF k.tostr # None THEN k.tostr ELSE mod_cmd(k) \o key_cmd(k)

\* the keylet after a call of to_string (the cache is filled)
Cached(k) == [k EXCEPT !.tostr = to_string(k)]

make_simple(key) ==
  LET key1 == IF EndsWith(key, <<"_","L">>) \/ EndsWith(key, <<"_","R">>)
              THEN SubSeq(key, 1, Len(key) - 2) ELSE key
  IN  IF key1 \in DOMAIN SIMPLEKEYS THEN SIMPLEKEYS[key1] ELSE key1

(***************************************************************************)
(* The world a handler runs in: the registry, each instance's              *)
(* configuration, what the handler has raised and written so far, and the  *)
(* exception it ended with ("ok" when none).                                *)
(***************************************************************************)
PutK(W, uzbl, k) == [W EXCEPT !.UZBLS = (uzbl :> k) @@ W.UZBLS]

Raise(W, e) == [W EXCEPT !.err = e]

Log(W, name, value) == [W EXCEPT !.events = Append(W.events, [ev |-> name, arg |-> value])]

\* what a handler of an event sees of the Keylet it is handed
Snap(k) == [cmd |-> k.cmd, cursor |-> k.cursor, held |-> k.held, modcmd |-> k.modcmd]

\* a trace entry that carries the Keylet of uzbl as it is then
LogK(W, uzbl, name) ==
  [W EXCEPT !.events = Append(W.events, [ev |-> name, arg |-> W.UZBLS[uzbl].cmd,
                                         k |-> Snap(W.UZBLS[uzbl])])]

\* a call of to_string on the Keylet of uzbl: the cache is filled, and the
\* world remembers a string returned that is not mod_cmd() + key_cmd()
Seen(W, uzbl) ==
  LET k == W.UZBLS[uzbl]
  IN  [W EXCEPT !.UZBLS = (uzbl :> Cached(k)) @@ W.UZBLS,
                !.stale = W.stale \/ to_string(k) # JoinHeld(k.held) \o k.cmd]

\* mutant of add_instance: the registry is rebuilt around the new Keylet
add_instance_reset(W, uzbl) == [W EXCEPT !.UZBLS = (uzbl :> Keylet)]

add_instance(W, uzbl) == PutK(W, uzbl, Keylet)

del_instance(W, uzbl) ==
  IF uzbl \in DOMAIN W.UZBLS
  THEN [W EXCEPT !.UZBLS = [x \in (DOMAIN W.UZBLS) \ {uzbl} |-> W.UZBLS[x]]]
  ELSE W

\* mutant of get_keylet: an unseen instance is given a Keylet already in use
get_keylet_shared(W, uzbl) ==
  LET W1 == IF uzbl \notin DOMAIN W.UZBLS
            THEN IF DOMAIN W.UZBLS = {} THEN add_instance(W, uzbl)
                 ELSE PutK(W, uzbl, W.UZBLS[CHOOSE x \in DOMAIN W.UZBLS : TRUE])
            ELSE W
  IN  PutK(W1, uzbl, [W1.UZBLS[uzbl] EXCEPT !.tostr = None])

\* mutant of get_keylet: the serialization cache is left as it is
get_keylet_stale(W, uzbl) ==
  IF uzbl \notin DOMAIN W.UZBLS THEN add_instance(W, uzbl) ELSE W

get_keylet(W, uzbl) ==
  LET W1 == IF uzbl \notin DOMAIN W.UZBLS THEN add_instance(W, uzbl) ELSE W
  IN  PutK(W1, uzbl, [W1.UZBLS[uzbl] EXCEPT !.tostr = None])

\* config[key] = value
ConfigSet(W, uzbl, key, value) ==
  Log([W EXCEPT !.config[uzbl] = (key :> value) @@ W.config[uzbl]], "CONFIG", value)

\* uzbl.set(key, value): the value is sent to the browser; the configuration
\* map changes only when the browser reports the variable back (VARIABLE_SET)
set(W, uzbl, key, value) == Log(W, "SET", value)

\* 'flag' in config and config['flag'] != '1'
FlagOff(W, uzbl, flag) ==
  flag \in DOMAIN W.config[uzbl] /\ W.config[uzbl][flag] # One

(***************************************************************************)
(* The exported functions up to their last call (the event clear_keycmd    *)
(* raises, the update_event of the other two).                             *)
(***************************************************************************)
\* mutant of clear_keylet: modcmd is cleared with the command
clear_keylet_nomod(W, uzbl) ==
  LET W1 == get_keylet(W, uzbl)
      k == W1.UZBLS[uzbl]
      k2 == [k EXCEPT !.cmd = <<>>, !.cursor = 0, !.tostr = None, !.modcmd = FALSE]
      W2 == PutK(W1, uzbl, k2)
  IN  IF "keycmd" \notin DOMAIN W2.config[uzbl] \/ W2.config[uzbl]["keycmd"] # <<>>
      THEN ConfigSet(W2, uzbl, "keycmd", <<>>)
      ELSE W2

\* clear_keycmd before it raises KEYCMD_CLEAR
clear_keylet(W, uzbl) ==
  LET W1 == get_keylet(W, uzbl)
      k == W1.UZBLS[uzbl]
      k1 == [k EXCEPT !.cmd = <<>>, !.cursor = 0, !.tostr = None]
      k2 == [k1 EXCEPT !.modcmd = mod_held(k1)]
      W2 == PutK(W1, uzbl, k2)
  IN  IF "keycmd" \notin DOMAIN W2.config[uzbl] \/ W2.config[uzbl]["keycmd"] # <<>>
      THEN ConfigSet(W2, uzbl, "keycmd", <<>>)
      ELSE W2

\* mutant of set_keylet: modcmd is left as it was
set_keylet_keepmod(W, uzbl, keycmd) ==
  LET W1 == get_keylet(W, uzbl)
      k == W1.UZBLS[uzbl]
  IN  PutK(W1, uzbl, [k EXCEPT !.tostr = None, !.cmd = keycmd, !.cursor = Len(keycmd)])

\* set_keycmd before it calls update_event
set_keylet(W, uzbl, keycmd) ==
  LET W1 == get_keylet(W, uzbl)
      k == W1.UZBLS[uzbl]
  IN  PutK(W1, uzbl, [k EXCEPT !.modcmd = FALSE, !.tostr = None,
                               !.cmd = keycmd, !.cursor = Len(keycmd)])

\* mutant of cursor_target: a negative index counts from the last character
cursor_target_off(k, index) ==
  IF index = <<"-">> THEN k.cursor - 1
  ELSE IF index = <<"+">> THEN k.cursor + 1
  ELSE LET cursor == ParseInt(index).val
       IN  IF cursor < 0 THEN Len(k.cmd) + cursor ELSE cursor

\* the cursor set_cursor_pos computes before clamping
cursor_target(k, index) ==
  IF index = <<"-">> THEN k.cursor - 1
  ELSE IF index = <<"+">> THEN k.cursor + 1
  ELSE LET cursor == ParseInt(index).val
       IN  IF cursor < 0 THEN Len(k.cmd) + cursor + 1 ELSE cursor

\* the clamping of set_cursor_pos
cursor_clamp(k, cursor) ==
  LET c1 == IF cursor < 0 THEN 0 ELSE cursor
  IN  IF c1 > Len(k.cmd) THEN Len(k.cmd) ELSE c1

\* set_cursor_pos before it calls update_event
cursor_keylet(W, uzbl, index) ==
  LET W1 == get_keylet(W, uzbl)
      k == W1.UZBLS[uzbl]
  IN  IF index \notin {<<"-">>, <<"+">>} /\ ~ParseInt(index).ok THEN Raise(W1, "ValueError")
      ELSE PutK(W1, uzbl, [k EXCEPT !.cursor = cursor_clamp(k, cursor_target(k, index))])

(***************************************************************************)
(* update_event.                                                           *)
(***************************************************************************)
\* update_event after MODCMD_UPDATE: keycmd is the string taken before it
modcmd_write(W, uzbl, keycmd) ==
  LET k == W.UZBLS[uzbl]
      W1 == Seen(W, uzbl)
  IN  IF keycmd # to_string(k) THEN W1
      ELSE IF FlagOff(W1, uzbl, "modcmd_updates") THEN W1
      ELSE set(W1, uzbl, "keycmd", escape(keycmd))

\* update_event after KEYCMD_UPDATE: keycmd is the command taken before it
keycmd_write(W, uzbl, keycmd) ==
  LET k == W.UZBLS[uzbl]
  IN  IF keycmd # k.cmd THEN W
      ELSE IF k.cmd = <<>> THEN set(W, uzbl, "keycmd", <<>>)
      ELSE IF k.cursor < 0 - Len(k.cmd) THEN Raise(W, "IndexError")
      ELSE
        LET cursor == IF k.cursor < Len(k.cmd)
                      THEN <<k.cmd[SliceIndex(k.cursor, Len(k.cmd)) + 1]>>
                      ELSE <<" ">>
        IN  set(W, uzbl, "keycmd",
                KEYCMD_FORMAT(escape(SliceTo(k.cmd, k.cursor)), escape(cursor),
                              escape(SliceFrom(k.cmd, k.cursor + 1))))

\* update_event(uzbl, k, False) as the exported functions call it: with
\* execute false no event is raised, so no handler runs inside it
update_quiet(W, uzbl) ==
  LET k == W.UZBLS[uzbl]
  IN  IF k.modcmd THEN modcmd_write(Seen(W, uzbl), uzbl, to_string(k))
      ELSE IF FlagOff(W, uzbl, "keycmd_events") THEN W
      ELSE keycmd_write(W, uzbl, k.cmd)

\* no handler of the raised event calls back into the plugin
NoHook == [op |-> "none", arg |-> <<>>]

\* the call h that a handler of a raised event makes back into the plugin,
\* for the same instance: one of the exported functions.  The handlers of
\* the KEYCMD_CLEAR that a call made this way raises call back no further.
reenter(W, uzbl, h) ==
  IF h.op = "clear_keycmd" THEN Log(clear_keylet(W, uzbl), "KEYCMD_CLEAR", <<>>)
  ELSE IF h.op = "set_keycmd" THEN update_quiet(set_keylet(W, uzbl, h.arg), uzbl)
  ELSE IF h.op = "set_cursor_pos" THEN update_quiet(cursor_keylet(W, uzbl, h.arg), uzbl)
  ELSE IF h.op = "match" THEN Seen(W, uzbl)
  ELSE W

\* uzbl.event(name, k): the event is raised, carrying the keylet (the trace
\* keeps it as it is then), its handlers run, and the call returns ("HANDLED",
\* with the keylet as the handlers leave it)
event(W, uzbl, name, h) ==
  LET W1 == reenter(LogK(W, uzbl, name), uzbl, h)
  IN  LogK(W1, uzbl, "HANDLED")

\* mutant of update_event: the update event is raised whatever execute is
update_event_loud(W, uzbl, execute, h) ==
  LET k == W.UZBLS[uzbl]
  IN  IF k.modcmd
      THEN LET keycmd == to_string(k)
               W1 == Seen(W, uzbl)
           IN  modcmd_write(event(W1, uzbl, "MODCMD_UPDATE", h), uzbl, keycmd)
      ELSE IF FlagOff(W, uzbl, "keycmd_events") THEN W
      ELSE keycmd_write(event(W, uzbl, "KEYCMD_UPDATE", h), uzbl, k.cmd)

update_event_pattern(W, uzbl, execute, h) ==
  LET k == W.UZBLS[uzbl]
  IN  IF k.modcmd
      THEN LET keycmd == to_string(k)
               W1 == Seen(W, uzbl)
           IN  modcmd_write(IF execute THEN event(W1, uzbl, "MODCMD_UPDATE", h) ELSE W1,
                            uzbl, keycmd)
      ELSE LET W1 == IF execute THEN event(W, uzbl, "KEYCMD_UPDATE", h) ELSE W
           IN  IF FlagOff(W, uzbl, "keycmd_events") THEN W1
               ELSE keycmd_write(W1, uzbl, k.cmd)

update_event(W, uzbl, execute, h) ==
  LET k == W.UZBLS[uzbl]
  IN  IF k.modcmd
      THEN LET keycmd == to_string(k)
               W1 == Seen(W, uzbl)
           IN  modcmd_write(IF execute THEN event(W1, uzbl, "MODCMD_UPDATE", h) ELSE W1,
                            uzbl, keycmd)
      ELSE IF FlagOff(W, uzbl, "keycmd_events") THEN W
      ELSE keycmd_write(IF execute THEN event(W, uzbl, "KEYCMD_UPDATE", h) ELSE W,
                        uzbl, k.cmd)

(***************************************************************************)
(* The handlers.  W is the world before the call; h is the call that the   *)
(* handlers of the events raised on the way make back into the plugin.     *)
(***************************************************************************)
clear_keycmd(W, uzbl, h) == event(clear_keylet(W, uzbl), uzbl, "KEYCMD_CLEAR", h)

\* key_press up to the held-list part: the keylet and cmdmod
press_cmd(W, uzbl, k, key) ==
  IF k.cmd # <<>> /\ ~k.modcmd /\ key = Space
  THEN [k |-> [k EXCEPT !.cmd = SliceTo(k.cmd, k.cursor) \o <<" ">> \o SliceFrom(k.cmd, k.cursor),
                        !.cursor = k.cursor + 1],
        cmdmod |-> TRUE]
  ELSE IF Len(key) > 1
  THEN [k |-> [k EXCEPT !.modcmd = TRUE], cmdmod |-> TRUE]
  ELSE IF ~k.modcmd
  THEN IF "keycmd_events" \notin DOMAIN W.config[uzbl] \/ W.config[uzbl]["keycmd_events"] = One
       THEN IF Len(key) = 1
            THEN [k |-> [k EXCEPT !.cmd = SliceTo(k.cmd, k.cursor) \o key \o SliceFrom(k.cmd, k.cursor),
                                  !.cursor = k.cursor + 1],
                  cmdmod |-> TRUE]
            ELSE [k |-> k, cmdmod |-> FALSE]
       ELSE IF k.cmd # <<>>
            THEN [k |-> [k EXCEPT !.cmd = <<>>, !.cursor = 0], cmdmod |-> TRUE]
            ELSE [k |-> k, cmdmod |-> FALSE]
  ELSE [k |-> k, cmdmod |-> FALSE]

\* the held-list part of key_press
press_held_forget(s, key) ==
  IF s.k.modcmd
  THEN LET held1 == IF key = ShiftTab /\ InSeq(s.k.held, Tab)
                    THEN Remove(s.k.held, Tab) ELSE s.k.held
       IN  [k |-> [s.k EXCEPT !.held = held1], cmdmod |-> TRUE]
  ELSE s

press_held(s, key) ==
  IF s.k.modcmd
  THEN LET held1 == IF key = ShiftTab /\ InSeq(s.k.held, Tab)
                    THEN Remove(s.k.held, Tab) ELSE s.k.held
       IN  IF ~InSeq(held1, key)
           THEN [k |-> [s.k EXCEPT !.held = Sort(Append(held1, key))], cmdmod |-> TRUE]
           ELSE [k |-> [s.k EXCEPT !.held = held1], cmdmod |-> s.cmdmod]
  ELSE s

key_press(W, uzbl, rawkey, h) ==
  IF StartsWith(rawkey, <<"S","h","i","f","t","_">>) THEN W
  ELSE
    LET key == IF Len(rawkey) > 1 THEN make_simple(rawkey) ELSE rawkey
        W1 == get_keylet(W, uzbl)
        s == press_held(press_cmd(W1, uzbl, W1.UZBLS[uzbl], key), key)
        W2 == PutK(W1, uzbl, s.k)
    IN  IF s.cmdmod THEN update_event(W2, uzbl, TRUE, h) ELSE W2

\* the key name a release is taken for
release_key(k, key) ==
  IF key \in {Shift, Tab} /\ InSeq(k.held, ShiftTab) THEN ShiftTab
  ELSE IF key \in {Shift, Alt} /\ InSeq(k.held, Meta) THEN Meta
  ELSE key

\* mutant of key_release: MODCMD_EXEC is decided before modcmd is recomputed
key_release_early(W, uzbl, rawkey, h) ==
  LET key0 == IF Len(rawkey) > 1 THEN make_simple(rawkey) ELSE rawkey
      W1 == get_keylet(W, uzbl)
      k == W1.UZBLS[uzbl]
      key == release_key(k, key0)
  IN  IF InSeq(k.held, key)
      THEN LET k1 == [k EXCEPT !.held = Remove(k.held, key)]
               k2 == [k1 EXCEPT !.modcmd = mod_held(k1)]
               W2 == PutK(W1, uzbl, k2)
               W3 == IF k.modcmd THEN event(W2, uzbl, "MODCMD_EXEC", h) ELSE W2
           IN  update_event(W3, uzbl, TRUE, h)
      ELSE W1

key_release(W, uzbl, rawkey, h) ==
  LET key0 == IF Len(rawkey) > 1 THEN make_simple(rawkey) ELSE rawkey
      W1 == get_keylet(W, uzbl)
      k == W1.UZBLS[uzbl]
      key == release_key(k, key0)
  IN  IF InSeq(k.held, key)
      THEN LET k1 == [k EXCEPT !.held = Remove(k.held, key)]
               k2 == [k1 EXCEPT !.modcmd = mod_held(k1)]
               W2 == PutK(W1, uzbl, k2)
               W3 == IF k2.modcmd THEN event(W2, uzbl, "MODCMD_EXEC", h) ELSE W2
           IN  update_event(W3, uzbl, TRUE, h)
      ELSE W1

set_keycmd(W, uzbl, keycmd) ==
  update_event(set_keylet(W, uzbl, keycmd), uzbl, FALSE, NoHook)

keycmd_strip_word(W, uzbl, sep0) ==
  LET sep == IF sep0 = <<>> THEN <<" ">> ELSE sep0
      W1 == get_keylet(W, uzbl)
      k == W1.UZBLS[uzbl]
  IN  IF k.cmd = <<>> THEN W1
      ELSE
        LET cmd == SliceTo(k.cmd, k.cursor)
            tail == Len(k.cmd) - k.cursor
            tmp == IF Contains(cmd, sep) THEN RSplit1(RStrip(cmd, sep), sep) ELSE << <<>> >>
            k1 == [k EXCEPT !.cmd = tmp[1] \o (IF Len(tmp) = 2 THEN sep ELSE <<>>)
                                           \o SliceFrom(k.cmd, k.cursor),
                            !.cursor = Len(tmp[1]) + (Len(tmp) - 1)]
            W2 == PutK(W1, uzbl, k1)
        IN  IF Len(k1.cmd) - k1.cursor # tail THEN Raise(W2, "AssertionError")
            ELSE update_event(W2, uzbl, FALSE, NoHook)

keycmd_backspace(W, uzbl) ==
  LET W1 == get_keylet(W, uzbl)
      k == W1.UZBLS[uzbl]
  IN  IF k.cmd = <<>> THEN W1
      ELSE LET k1 == [k EXCEPT !.cmd = SliceTo(k.cmd, k.cursor - 1) \o SliceFrom(k.cmd, k.cursor),
                               !.cursor = k.cursor - 1]
           IN  update_event(PutK(W1, uzbl, k1), uzbl, FALSE, NoHook)

\* mutant of keycmd_exec_current: the clear is done before KEYCMD_EXEC is raised
keycmd_exec_current_late(W, uzbl, h) ==
  event(clear_keycmd(get_keylet(W, uzbl), uzbl, h), uzbl, "KEYCMD_EXEC", h)

keycmd_exec_current(W, uzbl, h) ==
  clear_keycmd(event(get_keylet(W, uzbl), uzbl, "KEYCMD_EXEC", h), uzbl, h)

set_cursor_pos(W, uzbl, index) ==
  LET W1 == cursor_keylet(W, uzbl, index)
  IN  IF W1.err # "ok" THEN W1 ELSE update_event(W1, uzbl, FALSE, NoHook)

\* another plugin reads the Keylet: uzbl.get_keylet(), then to_string() twice
\* (the trace keeps each string returned)
read_keylet(W, uzbl) ==
  LET W1 == get_keylet(W, uzbl)
      W2 == Log(Seen(W1, uzbl), "TO_STRING", to_string(W1.UZBLS[uzbl]))
  IN  Log(Seen(W2, uzbl), "TO_STRING", to_string(W2.UZBLS[uzbl]))

(***************************************************************************)
(* Inputs.                                                                 *)
(***************************************************************************)
\* the instance identifiers
Instances == {"u1", "u2"}

\* the instance the specifications of one instance run
Single == {"u1"}

Keys == {Control, KeyA, space, Shift_L}

\* the keys of the specification of the held list
HeldKeys == {Control_L, KeyA, Tab, ISO_Left_Tab, Shift_L, Alt_L, Meta_L}

\* the inputs of the specification of two instances
RegKeys == {Control, Shift_L}

RegTexts == {<<"a">>}

RegIndexes == {<<"0">>}

Texts == {<<>>, <<"a","b","c">>}

Seps == {<<>>, <<" ">>, <<"a","b">>}

Indexes == {<<"-">>, <<"+">>, <<"0">>, <<"1">>, <<"-","1">>, <<"-","5">>, <<" ","2">>, <<"x">>}

Hooks == {NoHook,
          [op |-> "clear_keycmd", arg |-> <<>>],
          [op |-> "set_keycmd", arg |-> <<"a","b">>],
          [op |-> "set_cursor_pos", arg |-> <<"0">>]}

\* the calls of the specification of re-entrant handlers: the exported
\* functions, and k.match(regex) on the Keylet the event carries
Match == [op |-> "match", arg |-> <<>>]

HookCalls == {NoHook, Match,
              [op |-> "clear_keycmd", arg |-> <<>>],
              [op |-> "set_keycmd", arg |-> <<"b">>],
              [op |-> "set_cursor_pos", arg |-> <<"0">>]}

HookKeys == {Control, KeyA, Alt_L}

HookTexts == {<<"a">>}

HookIndexes == {<<"0">>, <<"-">>}

Flags == {"keycmd_events", "modcmd_updates"}

\* the values the browser reports for a configuration key
Values(key) ==
  IF key = "keycmd" THEN {<<>>, <<"a">>}
  ELSE IF key = "keycmd_events" THEN {Zero, One}
  ELSE {Zero}

(***************************************************************************)
(* The state machine: one action per event connected in init, one for the  *)
(* exported clear_keycmd and one for the host's configuration store.       *)
(***************************************************************************)
\* the world a handler starts in: nothing raised yet, no exception
World == [UZBLS |-> UZBLS, config |-> config, events |-> <<>>, err |-> "ok", stale |-> FALSE]

\* the Keylet a handler finds for u in registry R (a new one when u has none)
KeyletOf(R, u) == IF u \in DOMAIN R THEN R[u] ELSE Keylet

CmdOf(R, u) == KeyletOf(R, u).cmd

CursorOf(R, u) == KeyletOf(R, u).cursor

\* The model follows a handler unless it makes a command longer than MaxCmd,
\* moves a cursor below -MaxNeg or holds more than MaxHeld keys (set_keycmd
\* is always followed: its texts are inputs).
InBounds(W) ==
  \A u \in DOMAIN W.UZBLS :
    /\ IF Len(W.UZBLS[u].cmd) > MaxCmd
       THEN Len(W.UZBLS[u].cmd) <= Len(CmdOf(UZBLS, u)) ELSE TRUE
    /\ IF W.UZBLS[u].cursor < 0 - MaxNeg
       THEN W.UZBLS[u].cursor >= CursorOf(UZBLS, u) ELSE TRUE
    /\ Len(W.UZBLS[u].held) <= MaxHeld

\* the flags of the default configuration are absent
DefaultConfig(u) == \A f \in Flags : f \notin DOMAIN config[u]

\* number of entries named name in a handler's trace
RECURSIVE Count(_, _)
Count(trace, name) ==
  IF trace = <<>> THEN 0
  ELSE (IF Head(trace).ev = name THEN 1 ELSE 0) + Count(Tail(trace), name)

\* The keys that are down.  d.mode is "on" while, since the Keylet of the
\* instance was fresh, only keys that were up have been pressed and only keys
\* that were down released, with no handler calling back; d.keys are then the
\* raw keys pressed and not yet released.  "lost": the handlers run did not
\* keep to that; "off": the keys are not followed.
Pressed(d, op, key, h) ==
  IF d.mode = "off" THEN d
  ELSE IF op \in {"INSTANCE_START", "INSTANCE_EXIT"} THEN [mode |-> "on", keys |-> {}]
  ELSE IF d.mode = "on" /\ op = "KEY_PRESS" /\ key \notin d.keys /\ h = NoHook
  THEN [mode |-> "on", keys |-> d.keys \cup {key}]
  ELSE IF d.mode = "on" /\ op = "KEY_RELEASE" /\ key \in d.keys /\ h = NoHook
  THEN [mode |-> "on", keys |-> d.keys \ {key}]
  ELSE [mode |-> "lost", keys |-> {}]

\* The modifier flow: press Control, press a, release Control, release a.
Flow == <<[op |-> "KEY_PRESS", key |-> Control], [op |-> "KEY_PRESS", key |-> KeyA],
          [op |-> "KEY_RELEASE", key |-> Control], [op |-> "KEY_RELEASE", key |-> KeyA]>>

FlowOff == Len(Flow) + 1

\* flow[u] is how far the handlers run for u since its Keylet was fresh follow
\* Flow (FlowOff: they do not); execs[u] counts the MODCMD_EXEC raised on the way
Track(W, u, op, key, h) ==
  LET next == IF /\ flow[u] < Len(Flow)
                 /\ Flow[flow[u] + 1] = [op |-> op, key |-> key]
                 /\ h = NoHook
                 /\ DefaultConfig(u)
              THEN flow[u] + 1
              ELSE IF op \in {"INSTANCE_START", "INSTANCE_EXIT"} /\ DefaultConfig(u) THEN 0
              ELSE FlowOff
  IN  /\ flow' = [flow EXCEPT ![u] = next]
      /\ execs' = [execs EXCEPT ![u] = IF next \in 1..Len(Flow)
                                        THEN execs[u] + Count(W.events, "MODCMD_EXEC")
                                        ELSE 0]
      /\ down' = [down EXCEPT ![u] = Pressed(down[u], op, key, h)]

\* a handler has run: op for instance u with argument arg, leaving world W
\* (last.absent: u had no Keylet when the handler started; last.changed: the
\* handler left command, cursor, held or modcmd other than it found them)
Commit(W, op, u, arg) ==
  /\ UZBLS' = W.UZBLS
  /\ config' = W.config
  /\ events' = W.events
  /\ err' = W.err
  /\ last' = [op |-> op, uzbl |-> u, arg |-> arg, absent |-> u \notin DOMAIN UZBLS,
               stale |-> W.stale,
               changed |-> Snap(KeyletOf(W.UZBLS, u)) # Snap(KeyletOf(UZBLS, u))]

Step(W, op, u, arg) == InBounds(W) /\ Commit(W, op, u, arg)

Init ==
  /\ UZBLS = [u \in {} |-> Keylet]
  /\ config = [u \in Instances |-> [f \in {} |-> <<>>]]
  /\ events = <<>>
  /\ err = "ok"
  /\ last = [op |-> "init", uzbl |-> "", arg |-> <<>>, absent |-> FALSE, stale |-> FALSE,
             changed |-> FALSE]
  /\ flow = [u \in Instances |-> 0]
  /\ execs = [u \in Instances |-> 0]
  /\ down = [u \in Instances |-> [mode |-> "off", keys |-> {}]]

INSTANCE_START(U) ==
  \E u \in U :
    /\ Step(add_instance(World, u), "INSTANCE_START", u, <<>>)
    /\ Track(World, u, "INSTANCE_START", <<>>, NoHook)

INSTANCE_EXIT(U) ==
  \E u \in U :
    /\ Step(del_instance(World, u), "INSTANCE_EXIT", u, <<>>)
    /\ Track(World, u, "INSTANCE_EXIT", <<>>, NoHook)

KEY_PRESS(U, K, H) ==
  \E u \in U, key \in K, h \in H :
    LET W == key_press(World, u, key, h)
    IN  Step(W, "KEY_PRESS", u, key) /\ Track(W, u, "KEY_PRESS", key, h)

KEY_RELEASE(U, K, H) ==
  \E u \in U, key \in K, h \in H :
    LET W == key_release(World, u, key, h)
    IN  Step(W, "KEY_RELEASE", u, key) /\ Track(W, u, "KEY_RELEASE", key, h)

SET_KEYCMD(U, T) ==
  \E u \in U, keycmd \in T :
    LET W == set_keycmd(World, u, keycmd)
    IN  Commit(W, "SET_KEYCMD", u, keycmd) /\ Track(W, u, "SET_KEYCMD", <<>>, NoHook)

KEYCMD_STRIP_WORD(U, S) ==
  \E u \in U, sep \in S :
    LET W == keycmd_strip_word(World, u, sep)
    IN  Step(W, "KEYCMD_STRIP_WORD", u, sep) /\ Track(W, u, "KEYCMD_STRIP_WORD", <<>>, NoHook)

KEYCMD_BACKSPACE(U) ==
  \E u \in U :
    LET W == keycmd_backspace(World, u)
    IN  Step(W, "KEYCMD_BACKSPACE", u, <<>>) /\ Track(W, u, "KEYCMD_BACKSPACE", <<>>, NoHook)

KEYCMD_EXEC_CURRENT(U, H) ==
  \E u \in U, h \in H :
    LET W == keycmd_exec_current(World, u, h)
    IN  Step(W, "KEYCMD_EXEC_CURRENT", u, <<>>) /\ Track(W, u, "KEYCMD_EXEC_CURRENT", <<>>, h)

SET_CURSOR_POS(U, I) ==
  \E u \in U, index \in I :
    LET W == set_cursor_pos(World, u, index)
    IN  Step(W, "SET_CURSOR_POS", u, index) /\ Track(W, u, "SET_CURSOR_POS", <<>>, NoHook)

\* clear_keycmd is exported: other plugins call it outside any keycmd event
CLEAR_KEYCMD(U, H) ==
  \E u \in U, h \in H :
    LET W == clear_keycmd(World, u, h)
    IN  Step(W, "CLEAR_KEYCMD", u, <<>>) /\ Track(W, u, "CLEAR_KEYCMD", <<>>, h)

\* get_keylet is exported: other plugins read the Keylet between the handlers
GET_KEYLET(U) ==
  \E u \in U :
    LET W == read_keylet(World, u)
    IN  Step(W, "GET_KEYLET", u, <<>>) /\ Track(W, u, "GET_KEYLET", <<>>, NoHook)

\* the configuration store is the host's: the browser reports a variable set
\* (events, err and last stay those of the last handler the plugin ran)
VARIABLE_SET(U, Ks) ==
  \E u \in U, key \in Ks :
    \E v \in Values(key) :
      /\ config' = [config EXCEPT ![u] = (key :> v) @@ config[u]]
      /\ flow' = [flow EXCEPT ![u] = FlowOff]
      /\ execs' = [execs EXCEPT ![u] = 0]
      /\ last' = [op |-> "VARIABLE_SET", uzbl |-> u, arg |-> v, absent |-> FALSE,
                   stale |-> FALSE, changed |-> FALSE]
      /\ UNCHANGED <<UZBLS, events, err, down>>

\* One instance, default flags: every handler, with re-entrant calls.
Next ==
  \/ INSTANCE_START(Single)
  \/ INSTANCE_EXIT(Single)
  \/ KEY_PRESS(Single, Keys, Hooks)
  \/ KEY_RELEASE(Single, Keys, Hooks)
  \/ SET_KEYCMD(Single, Texts)
  \/ KEYCMD_STRIP_WORD(Single, Seps)
  \/ KEYCMD_BACKSPACE(Single)
  \/ KEYCMD_EXEC_CURRENT(Single, Hooks)
  \/ SET_CURSOR_POS(Single, Indexes)
  \/ CLEAR_KEYCMD(Single, Hooks)
  \/ VARIABLE_SET(Single, {"keycmd"})

Spec == Init /\ [][Next]_vars

\* One instance, every key that the held list treats specially.
NextHeld ==
  \/ INSTANCE_START(Single)
  \/ KEY_PRESS(Single, HeldKeys, {NoHook})
  \/ KEY_RELEASE(Single, HeldKeys, {NoHook})
  \/ SET_KEYCMD(Single, {<<"a">>})
  \/ CLEAR_KEYCMD(Single, {NoHook})

SpecHeld == Init /\ [][NextHeld]_vars

\* Two instances, whose events interleave.
NextReg ==
  \/ INSTANCE_START(Instances)
  \/ INSTANCE_EXIT(Instances)
  \/ KEY_PRESS(Instances, RegKeys, {NoHook})
  \/ KEY_RELEASE(Instances, RegKeys, {NoHook})
  \/ SET_KEYCMD(Instances, RegTexts)
  \/ KEYCMD_STRIP_WORD(Instances, {<<>>})
  \/ KEYCMD_BACKSPACE(Instances)
  \/ KEYCMD_EXEC_CURRENT(Instances, {NoHook})
  \/ SET_CURSOR_POS(Instances, RegIndexes)
  \/ CLEAR_KEYCMD(Instances, {NoHook})

SpecReg == Init /\ [][NextReg]_vars

\* One instance, every handler, no handler of a raised event calling back.
NextEdit ==
  \/ INSTANCE_START(Single)
  \/ KEY_PRESS(Single, Keys, {NoHook})
  \/ KEY_RELEASE(Single, Keys, {NoHook})
  \/ SET_KEYCMD(Single, Texts)
  \/ KEYCMD_STRIP_WORD(Single, Seps)
  \/ KEYCMD_BACKSPACE(Single)
  \/ KEYCMD_EXEC_CURRENT(Single, {NoHook})
  \/ SET_CURSOR_POS(Single, Indexes)
  \/ CLEAR_KEYCMD(Single, {NoHook})

SpecEdit == Init /\ [][NextEdit]_vars

\* One instance, every handler, no handler calling back, the configuration
\* keys the plugin reads changing between the handlers.
FlagKeys == {Control, KeyA, space}

FlagTexts == {<<"a">>}

FlagIndexes == {<<"0">>}

NextFlags ==
  \/ INSTANCE_START(Single)
  \/ KEY_PRESS(Single, FlagKeys, {NoHook})
  \/ KEY_RELEASE(Single, FlagKeys, {NoHook})
  \/ SET_KEYCMD(Single, FlagTexts)
  \/ KEYCMD_STRIP_WORD(Single, {<<>>})
  \/ KEYCMD_BACKSPACE(Single)
  \/ KEYCMD_EXEC_CURRENT(Single, {NoHook})
  \/ SET_CURSOR_POS(Single, FlagIndexes)
  \/ CLEAR_KEYCMD(Single, {NoHook})
  \/ VARIABLE_SET(Single, {"keycmd"} \cup Flags)

SpecFlags == Init /\ [][NextFlags]_vars

\* One instance, every handler, the handlers of each raised event calling back
\* into the plugin or reading the Keylet.
NextHook ==
  \/ INSTANCE_START(Single)
  \/ KEY_PRESS(Single, HookKeys, HookCalls)
  \/ KEY_RELEASE(Single, HookKeys, HookCalls)
  \/ SET_KEYCMD(Single, HookTexts)
  \/ KEYCMD_STRIP_WORD(Single, {<<>>})
  \/ KEYCMD_BACKSPACE(Single)
  \/ KEYCMD_EXEC_CURRENT(Single, HookCalls)
  \/ SET_CURSOR_POS(Single, HookIndexes)
  \/ CLEAR_KEYCMD(Single, HookCalls)
  \/ GET_KEYLET(Single)

SpecHook == Init /\ [][NextHook]_vars

\* One instance, key presses and releases only, the keys that are down followed.
InitDown ==
  /\ UZBLS = [u \in {} |-> Keylet]
  /\ config = [u \in Instances |-> [f \in {} |-> <<>>]]
  /\ events = <<>>
  /\ err = "ok"
  /\ last = [op |-> "init", uzbl |-> "", arg |-> <<>>, absent |-> FALSE, stale |-> FALSE,
             changed |-> FALSE]
  /\ flow = [u \in Instances |-> FlowOff]
  /\ execs = [u \in Instances |-> 0]
  /\ down = [u \in Instances |-> [mode |-> "on", keys |-> {}]]

NextDown ==
  \/ INSTANCE_START(Single)
  \/ KEY_PRESS(Single, HeldKeys, {NoHook})
  \/ KEY_RELEASE(Single, HeldKeys, {NoHook})

SpecDown == InitDown /\ [][NextDown]_vars

(***************************************************************************)
(* keycmd_strip_word as a function of the command: the commands are drawn  *)
(* from the strings of up to MaxStrip characters, the cursor is at the end *)
(* and the handler is applied again and again.                             *)
(***************************************************************************)
MaxStrip == 5

FooBarBaz == <<"f","o","o"," ","b","a","r"," ","b","a","z">>

StripTexts == UNION {[1..n -> {"a", " "}] : n \in 0..MaxStrip} \cup {FooBarBaz}

StripSeps == {<<>>, <<" ">>, <<"a">>}

InitStrip ==
  /\ \E text \in StripTexts :
       UZBLS = [u \in Single |-> [Keylet EXCEPT !.cmd = text, !.cursor = Len(text)]]
  /\ config = [u \in Instances |-> [f \in {} |-> <<>>]]
  /\ events = <<>>
  /\ err = "ok"
  /\ last = [op |-> "init", uzbl |-> "", arg |-> <<>>, absent |-> FALSE, stale |-> FALSE,
             changed |-> FALSE]
  /\ flow = [u \in Instances |-> FlowOff]
  /\ execs = [u \in Instances |-> 0]
  /\ down = [u \in Instances |-> [mode |-> "off", keys |-> {}]]

NextStrip == KEYCMD_STRIP_WORD(Single, StripSeps)

\* the handler is applied repeatedly. Every state allows a strip that changes
\* the state (at least the record of the last call), so weak fairness of
\* NextStrip, WF_vars(NextStrip), comes to: strips keep being taken
SpecStrip == InitStrip /\ [][NextStrip]_vars /\ []<><<NextStrip>>_vars

(***************************************************************************)
(* The claims.                                                             *)
(***************************************************************************)
\* the Keylet of the instance of the last handler, before and after it
Before == KeyletOf(UZBLS, last'.uzbl)
After == KeyletOf(UZBLS', last'.uzbl)

\* C1: in every reachable state every Keylet's cursor satisfies
\* 0 <= cursor <= len(command).
C1_CursorInRange ==
  \A u \in DOMAIN UZBLS :
    0 <= UZBLS[u].cursor /\ UZBLS[u].cursor <= Len(UZBLS[u].cmd)

\* C2: from a fresh Keylet with the default configuration and no re-entrant
\* handler, press Control, press a, release Control, release a ends with held
\* empty and modcmd false, and MODCMD_EXEC was raised exactly once on the way.
C2_ModifierFlow ==
  \A u \in Instances :
    flow[u] = Len(Flow) =>
      /\ KeyletOf(UZBLS, u).held = <<>>
      /\ ~KeyletOf(UZBLS, u).modcmd
      /\ execs[u] = 1

\* C3: keycmd_backspace leaves an empty command and its cursor unchanged; on a
\* non-empty command it removes exactly the character before the cursor (the
\* command is one shorter, the text before that character and the text from
\* the old cursor on are unchanged) and the cursor moves back by one.
C3_Backspace ==
  [][last'.op = "KEYCMD_BACKSPACE" =>
       IF Before.cmd = <<>>
       THEN After.cmd = <<>> /\ After.cursor = Before.cursor
       ELSE /\ Len(After.cmd) = Len(Before.cmd) - 1
            /\ After.cursor = Before.cursor - 1
            /\ SliceFrom(After.cmd, After.cursor) = SliceFrom(Before.cmd, Before.cursor)
            /\ SliceTo(After.cmd, After.cursor) = SliceTo(Before.cmd, Before.cursor - 1)]_vars

\* C4: for every separator keycmd_strip_word ends without failing its
\* tail-size assertion, and leaves the number of characters after the cursor
\* and the text after the cursor as they were.
C4_StripWordTail ==
  [][last'.op = "KEYCMD_STRIP_WORD" =>
       /\ err' = "ok"
       /\ Len(After.cmd) - After.cursor = Len(Before.cmd) - Before.cursor
       /\ SliceFrom(After.cmd, After.cursor) = SliceFrom(Before.cmd, Before.cursor)]_vars

\* the integer each index string of the inputs denotes
IndexNumber ==
  (<<"0">> :> 0) @@ (<<"1">> :> 1) @@ (<<" ","2">> :> 2)
    @@ (<<"-","1">> :> 0 - 1) @@ (<<"-","5">> :> 0 - 5)

\* the cursor the claim gives for index on Keylet k
C5_Target(k, index) ==
  IF index = <<"-">> THEN k.cursor - 1
  ELSE IF index = <<"+">> THEN k.cursor + 1
  ELSE IF IndexNumber[index] >= 0 THEN IndexNumber[index]
  ELSE Len(k.cmd) + IndexNumber[index] + 1

C5_Clamp(t, n) == IF t < 0 THEN 0 ELSE IF t > n THEN n ELSE t

\* C5: set_cursor_pos(spec) sets the cursor to clamp(target, 0, len(command)),
\* target being cursor-1 for "-", cursor+1 for "+", n for a non-negative
\* integer string and len(command)+n+1 for a negative one; command, held and
\* modcmd are unchanged.
C5_SetCursorPos ==
  [][(last'.op = "SET_CURSOR_POS" /\ last'.arg \in {<<"-">>, <<"+">>} \cup DOMAIN IndexNumber) =>
       /\ err' = "ok"
       /\ After.cursor = C5_Clamp(C5_Target(Before, last'.arg), Len(Before.cmd))
       /\ After.cmd = Before.cmd
       /\ After.held = Before.held
       /\ After.modcmd = Before.modcmd]_vars

\* C5 happens: "-5" on a command of length 3 has put the cursor at 0
C5_Witness ==
  /\ last.op = "SET_CURSOR_POS"
  /\ last.arg = <<"-","5">>
  /\ Len(KeyletOf(UZBLS, last.uzbl).cmd) = 3
  /\ KeyletOf(UZBLS, last.uzbl).cursor = 0

\* C6: set_keycmd(text) leaves command = text, cursor = len(text) and
\* modcmd false, with held unchanged.
C6_SetKeycmd ==
  [][last'.op = "SET_KEYCMD" =>
       /\ After.cmd = last'.arg
       /\ After.cursor = Len(last'.arg)
       /\ ~After.modcmd
       /\ After.held = Before.held]_vars

\* C6 happens: set_keycmd("abc") while a key is held gives "abc", cursor 3
C6_Witness ==
  /\ last.op = "SET_KEYCMD"
  /\ last.arg = <<"a","b","c">>
  /\ KeyletOf(UZBLS, last.uzbl).cmd = <<"a","b","c">>
  /\ KeyletOf(UZBLS, last.uzbl).cursor = 3
  /\ KeyletOf(UZBLS, last.uzbl).held # <<>>

\* C7: in every reachable state the held list is strictly ascending (sorted,
\* no key name twice).
C7_HeldAscending ==
  \A u \in DOMAIN UZBLS :
    \A i \in 1..(Len(UZBLS[u].held) - 1) :
      StrLess(UZBLS[u].held[i], UZBLS[u].held[i + 1])

\* C7 happens: Shift-Tab has replaced Tab beside Alt, which was pressed later
C7_Witness ==
  /\ last.op = "KEY_PRESS"
  /\ last.arg = ISO_Left_Tab
  /\ KeyletOf(UZBLS, last.uzbl).held = <<Alt, ShiftTab>>

\* C8: a handler invoked for an instance with no Keylet in the registry does
\* not fail and works on a fresh Keylet; instance-exit for such an instance
\* changes nothing, and after any instance-exit the instance has no Keylet
\* (so the next handler starts from a fresh one).
C8_MissingInstance ==
  [][/\ (last'.absent /\ last'.op \in {"KEY_RELEASE", "KEYCMD_STRIP_WORD", "KEYCMD_BACKSPACE",
                                        "KEYCMD_EXEC_CURRENT", "SET_CURSOR_POS", "CLEAR_KEYCMD"})
          => (err' = "ok" /\ last'.uzbl \in DOMAIN UZBLS' /\ UZBLS'[last'.uzbl] = Keylet)
     /\ (last'.absent /\ last'.op = "SET_KEYCMD")
          => /\ err' = "ok"
             /\ last'.uzbl \in DOMAIN UZBLS'
             /\ UZBLS'[last'.uzbl] = [Keylet EXCEPT !.cmd = last'.arg, !.cursor = Len(last'.arg)]
     /\ (last'.absent /\ last'.op = "KEY_PRESS" /\ last'.arg = Control)
          => /\ err' = "ok"
             /\ last'.uzbl \in DOMAIN UZBLS'
             /\ After.cmd = <<>> /\ After.cursor = 0
             /\ After.held = <<Ctrl>> /\ After.modcmd
     /\ (last'.absent /\ last'.op = "INSTANCE_EXIT") => (err' = "ok" /\ UZBLS' = UZBLS)
     /\ last'.op = "INSTANCE_EXIT" => last'.uzbl \notin DOMAIN UZBLS'
     /\ last'.op = "INSTANCE_START" => UZBLS'[last'.uzbl] = Keylet]_vars

\* C8 happens: a backspace has run for an instance that had no Keylet while
\* the other instance's Keylet holds a command
C8_Witness ==
  /\ last.op = "KEYCMD_BACKSPACE"
  /\ last.absent
  /\ \E b \in DOMAIN UZBLS : b # last.uzbl /\ UZBLS[b].cmd # <<>>

\* C9: a handler run for one instance leaves the Keylet of every other
\* instance (and whether it has one) unchanged.
C9_Isolation ==
  [][\A b \in Instances :
       b # last'.uzbl =>
         /\ (b \in DOMAIN UZBLS) = (b \in DOMAIN UZBLS')
         /\ b \in DOMAIN UZBLS => UZBLS'[b] = UZBLS[b]]_vars

\* C9 happens: u1 has just been started while u2 holds Ctrl over a command
C9_Witness ==
  /\ last.op = "INSTANCE_START"
  /\ last.uzbl = "u1"
  /\ "u2" \in DOMAIN UZBLS
  /\ UZBLS["u2"].held = <<Ctrl>>
  /\ UZBLS["u2"].cmd = <<"a">>

\* C10: with the cursor at the end and a one-character separator, each
\* keycmd_strip_word on a non-empty command leaves a strictly shorter command
\* with the cursor at its end ("foo bar baz" becomes "foo bar ", cursor 8),
\* and applied repeatedly it reaches the empty command with cursor 0.
C10_StripWord ==
  /\ [][(/\ last'.op = "KEYCMD_STRIP_WORD"
         /\ Before.cmd # <<>>
         /\ Before.cursor = Len(Before.cmd)) =>
          /\ err' = "ok"
          /\ Len(After.cmd) < Len(Before.cmd)
          /\ After.cursor = Len(After.cmd)
          /\ (Before.cmd = FooBarBaz /\ last'.arg \in {<<>>, <<" ">>}) =>
               After.cmd = <<"f","o","o"," ","b","a","r"," ">> /\ After.cursor = 8]_vars
  /\ <>(\A u \in DOMAIN UZBLS : UZBLS[u].cmd = <<>> /\ UZBLS[u].cursor = 0)

\* C10 happens: "foo bar baz" has been stripped to "foo bar ", cursor 8
C10_Witness ==
  /\ last.op = "KEYCMD_STRIP_WORD"
  /\ KeyletOf(UZBLS, last.uzbl).cmd = <<"f","o","o"," ","b","a","r"," ">>
  /\ KeyletOf(UZBLS, last.uzbl).cursor = 8

\* the events of the plugin
Raised == {"KEYCMD_CLEAR", "MODCMD_UPDATE", "KEYCMD_UPDATE", "MODCMD_EXEC", "KEYCMD_EXEC"}

\* the entries of a handler's trace that the handler itself made: those between
\* an event it raised and the return of that event are its handlers'
RECURSIVE Outer(_, _)
Outer(trace, inside) ==
  IF trace = <<>> THEN <<>>
  ELSE IF inside THEN Outer(Tail(trace), Head(trace).ev # "HANDLED")
  ELSE IF Head(trace).ev \in Raised THEN <<Head(trace)>> \o Outer(Tail(trace), TRUE)
  ELSE <<Head(trace)>> \o Outer(Tail(trace), FALSE)

IsRaised(e) == e.ev \in Raised

\* the events the handler itself raised, in order
OwnEvents(trace) == SelectSeq(Outer(trace, FALSE), IsRaised)

\* no handler of a raised event made a call that shows in the trace
NoCalls(trace) ==
  \A i \in 1..Len(trace) :
    trace[i].ev \in Raised => (i < Len(trace) /\ trace[i + 1].ev = "HANDLED")

\* C11: keycmd_exec_current raises KEYCMD_EXEC exactly once, carrying the
\* Keylet as it was before the clear, and only then clears, which raises
\* KEYCMD_CLEAR exactly once (with the command already "" and the cursor 0);
\* when no handler calls back, it ends with command "" and cursor 0.
C11_ExecCurrent ==
  [][last'.op = "KEYCMD_EXEC_CURRENT" =>
       LET own == OwnEvents(events')
       IN  /\ err' = "ok"
           /\ Len(own) = 2
           /\ own[1].ev = "KEYCMD_EXEC"
           /\ own[1].k = Snap(Before)
           /\ own[2].ev = "KEYCMD_CLEAR"
           /\ own[2].k.cmd = <<>>
           /\ own[2].k.cursor = 0
           /\ NoCalls(events') => (After.cmd = <<>> /\ After.cursor = 0)]_vars

\* C11 happens: a non-empty command has been executed and cleared, no handler
\* calling back
C11_Witness ==
  /\ last.op = "KEYCMD_EXEC_CURRENT"
  /\ NoCalls(events)
  /\ Len(events) >= 1
  /\ events[1].ev = "KEYCMD_EXEC"
  /\ events[1].k.cmd # <<>>
  /\ KeyletOf(UZBLS, last.uzbl).cmd = <<>>

\* C12: clear_keycmd sets the command to "" and the cursor to 0, sets modcmd
\* to mod_held() (some held key name is not one character long), leaves held
\* unchanged, writes "" to the configuration key keycmd only when the key is
\* absent or not already "", and raises KEYCMD_CLEAR exactly once either way.
C12_ClearKeycmd ==
  [][last'.op = "CLEAR_KEYCMD" =>
       LET u == last'.uzbl
           unset == "keycmd" \notin DOMAIN config[u] \/ config[u]["keycmd"] # <<>>
       IN  /\ err' = "ok"
           /\ After.cmd = <<>>
           /\ After.cursor = 0
           /\ After.held = Before.held
           /\ After.modcmd = (\E i \in 1..Len(Before.held) : Len(Before.held[i]) # 1)
           /\ Count(events', "CONFIG") = (IF unset THEN 1 ELSE 0)
           /\ config'[u] = (IF unset THEN ("keycmd" :> <<>>) @@ config[u] ELSE config[u])
           /\ Count(events', "KEYCMD_CLEAR") = 1
           /\ Len(OwnEvents(events')) = 1]_vars

\* C12 happens: a clear with a modifier still held and the configuration key
\* already "": modcmd stays true, nothing is written, KEYCMD_CLEAR is raised
C12_Witness ==
  /\ last.op = "CLEAR_KEYCMD"
  /\ KeyletOf(UZBLS, last.uzbl).modcmd
  /\ KeyletOf(UZBLS, last.uzbl).held = <<Ctrl>>
  /\ Count(events, "CONFIG") = 0
  /\ Count(events, "KEYCMD_CLEAR") = 1

\* C13: with modcmd false and keycmd_events absent or "1", key_press of a
\* single printable character inserts it at the cursor position: the command
\* grows by exactly that character, the text before and after the old cursor
\* is unchanged, the cursor advances by one; held and modcmd are unchanged.
C13_KeyPressInsert ==
  [][(/\ last'.op = "KEY_PRESS"
      /\ Len(last'.arg) = 1
      /\ ~Before.modcmd
      /\ ("keycmd_events" \in DOMAIN config[last'.uzbl]
             => config[last'.uzbl]["keycmd_events"] = One)) =>
       /\ err' = "ok"
       /\ Len(After.cmd) = Len(Before.cmd) + 1
       /\ After.cursor = Before.cursor + 1
       /\ Before.cursor \in 0..Len(Before.cmd)
       /\ After.cmd = SubSeq(Before.cmd, 1, Before.cursor) \o last'.arg
                        \o SubSeq(Before.cmd, Before.cursor + 1, Len(Before.cmd))
       /\ After.held = Before.held
       /\ After.modcmd = Before.modcmd]_vars

\* C14: no editing command (set_keycmd, keycmd_strip_word, keycmd_backspace,
\* keycmd_exec_current, set_cursor_pos) raises MODCMD_UPDATE or KEYCMD_UPDATE:
\* a handler's trace holds one of them only if the handler is key_press or
\* key_release.
C14_EditsRaiseNoUpdate ==
  [][/\ last'.op \in {"SET_KEYCMD", "KEYCMD_STRIP_WORD", "KEYCMD_BACKSPACE",
                       "KEYCMD_EXEC_CURRENT", "SET_CURSOR_POS"}
          => (Count(events', "MODCMD_UPDATE") = 0 /\ Count(events', "KEYCMD_UPDATE") = 0)
     /\ (Count(events', "MODCMD_UPDATE") + Count(events', "KEYCMD_UPDATE") > 0)
          => last'.op \in {"KEY_PRESS", "KEY_RELEASE"}]_vars

\* C14 happens: set_cursor_pos in modcmd mode has written keycmd and raised
\* no event
C14_Witness ==
  /\ last.op = "SET_CURSOR_POS"
  /\ KeyletOf(UZBLS, last.uzbl).modcmd
  /\ Len(events) = 1
  /\ events[1].ev = "SET"

\* the entry at which the event raised at entry i of trace returns
Returned(trace, i) ==
  CHOOSE j \in (i + 1)..Len(trace) :
    /\ trace[j].ev = "HANDLED"
    /\ \A m \in (i + 1)..(j - 1) : trace[m].ev # "HANDLED"

\* C15: whenever a handler run during the MODCMD_UPDATE or KEYCMD_UPDATE that
\* update_event raised has changed the Keylet (command, cursor, held or modcmd
\* differ when the event returns), update_event returns without writing keycmd:
\* the trace holds no write after the return of the event.
C15_ReentryDetected ==
  \A i \in 1..Len(events) :
    events[i].ev \in {"MODCMD_UPDATE", "KEYCMD_UPDATE"} =>
      LET j == Returned(events, i)
      IN  events[j].k # events[i].k =>
            \A m \in (j + 1)..Len(events) : events[m].ev # "SET"

\* C16: every call of to_string returns mod_cmd() + command for the held list
\* and command the Keylet has then, also in handlers re-entered while an event
\* is dispatched: no handler has been returned another string, a cache that is
\* set holds that value, and two calls in a row return the same string.
C16_CacheFresh ==
  /\ ~last.stale
  /\ \A u \in DOMAIN UZBLS :
       UZBLS[u].tostr # None => UZBLS[u].tostr = JoinHeld(UZBLS[u].held) \o UZBLS[u].cmd
  /\ last.op = "GET_KEYLET" =>
       /\ Len(events) = 2
       /\ events[1].arg = events[2].arg
       /\ events[1].arg = JoinHeld(UZBLS[last.uzbl].held) \o UZBLS[last.uzbl].cmd

\* C16 happens: the Keylet has been read with Ctrl held over the command "a",
\* after handlers that filled the cache with other strings
C16_Witness ==
  /\ last.op = "GET_KEYLET"
  /\ UZBLS[last.uzbl].held = <<Ctrl>>
  /\ UZBLS[last.uzbl].cmd = <<"a">>
  /\ UZBLS[last.uzbl].tostr = <<"<", "C", "t", "r", "l", ">", "a">>
  /\ events[2].arg = <<"<", "C", "t", "r", "l", ">", "a">>

\* the key name each raw key of the inputs is known by
SimpleName ==
  (Control_L :> Ctrl) @@ (Control :> Ctrl) @@ (KeyA :> KeyA) @@ (Tab :> Tab)
    @@ (ISO_Left_Tab :> ShiftTab) @@ (Shift_L :> Shift) @@ (Alt_L :> Alt)
    @@ (Meta_L :> Meta) @@ (space :> Space)

Holds(held, key) == \E i \in 1..Len(held) : held[i] = key

\* the key name a release of raw key is resolved to while held is held
Resolved(held, raw) ==
  LET key == SimpleName[raw]
  IN  IF key \in {Shift, Tab} /\ Holds(held, ShiftTab) THEN ShiftTab
      ELSE IF key \in {Shift, Alt} /\ Holds(held, Meta) THEN Meta
      ELSE key

RECURSIVE Without(_, _)
Without(held, key) ==
  IF held = <<>> THEN <<>>
  ELSE (IF Head(held) = key THEN <<>> ELSE <<Head(held)>>) \o Without(Tail(held), key)

Off(flag) ==
  /\ flag \in DOMAIN config[last'.uzbl]
  /\ config[last'.uzbl][flag] # One

\* a key handler has changed the Keylet, and so has called update_event
KeyChange == last'.op \in {"KEY_PRESS", "KEY_RELEASE"} /\ last'.changed

\* C18 as stated: when modcmd is false, update_event raises KEYCMD_UPDATE
\* first whatever keycmd_events says, and keycmd_events present and not "1"
\* suppresses only the write of keycmd that follows.
C18_SamePattern ==
  [][KeyChange /\ ~After.modcmd =>
       /\ events' # <<>>
       /\ events'[1].ev = "KEYCMD_UPDATE"
       /\ Off("keycmd_events") => Count(events', "SET") = 0]_vars

\* C18 as the code has it: when modcmd is false and keycmd_events is present
\* and not "1", update_event raises no event and writes nothing; with the flag
\* absent or "1" it raises KEYCMD_UPDATE once, before any write.  In modcmd
\* mode MODCMD_UPDATE is raised whatever modcmd_updates says, before any write,
\* and modcmd_updates present and not "1" suppresses the write.
C18_KeycmdEvents ==
  [][KeyChange =>
       IF After.modcmd
       THEN /\ Count(events', "MODCMD_UPDATE") = 1
            /\ \A i \in 1..Len(events') :
                 events'[i].ev = "SET" =>
                   \E j \in 1..(i - 1) : events'[j].ev = "MODCMD_UPDATE"
            /\ Off("modcmd_updates") => Count(events', "SET") = 0
       ELSE IF Off("keycmd_events")
       THEN events' = <<>>
       ELSE /\ Count(events', "KEYCMD_UPDATE") = 1
            /\ events'[1].ev = "KEYCMD_UPDATE"]_vars

\* C18 happens: with keycmd_events "0", the release of the last held key has
\* left command mode and raised nothing
C18_Witness ==
  /\ last.op = "KEY_RELEASE"
  /\ last.changed
  /\ ~KeyletOf(UZBLS, last.uzbl).modcmd
  /\ "keycmd_events" \in DOMAIN config[last.uzbl]
  /\ config[last.uzbl]["keycmd_events"] = Zero
  /\ events = <<>>

\* C19: between handlers, a Keylet in modcmd mode holds a modifier: modcmd
\* true implies that held is not empty and has a key name whose length is not
\* one, whatever key presses, key releases, editing commands and clears came
\* before.
C19_ModcmdHeld ==
  \A u \in DOMAIN UZBLS :
    UZBLS[u].modcmd =>
      /\ UZBLS[u].held # <<>>
      /\ \E i \in 1..Len(UZBLS[u].held) : Len(UZBLS[u].held[i]) # 1
      /\ mod_held(UZBLS[u])

\* C19 happens: a release has taken one of two held keys away and the Keylet
\* is still in modcmd mode, with a modifier held
C19_Witness ==
  /\ last.op = "KEY_RELEASE"
  /\ last.changed
  /\ last.uzbl \in DOMAIN UZBLS
  /\ UZBLS[last.uzbl].modcmd
  /\ UZBLS[last.uzbl].held = <<Alt>>

\* C20: once every key that was pressed has been released (each raw key
\* released once after its press, in any order), held is empty and modcmd is
\* false: no key name stays in held.
C20_AllReleased ==
  \A u \in Instances :
    (down[u].mode = "on" /\ down[u].keys = {}) =>
      (KeyletOf(UZBLS, u).held = <<>> /\ ~KeyletOf(UZBLS, u).modcmd)

====
